---- MODULE Spec2Model ----
(***************************************************************************)
(* Model of the task runner's lifecycle hook engine                        *)
(* (client/allocrunnerv2/taskrunner/task_runner_hooks.go).                 *)
(*                                                                         *)
(* The five phase runners (prestart, poststart, stop, updateHooks, kill)   *)
(* iterate tr.runnerHooks, which initHooks builds from the task.  Each     *)
(* runner is modelled statement group by statement group; the position of  *)
(* the runner is (phase, pc, idx).  Hook implementations, the persistence  *)
(* call, the environment builder and the allocation are collaborators:     *)
(* their answers are nondeterministic choices from bounded sets.           *)
(*                                                                         *)
(* Go values: a nil HookData, a nil error and an absent environment key    *)
(* are 0; a *HookState is identified by the map key it is stored under     *)
(* (the code never stores one pointer under two names, and never replaces  *)
(* the pointer stored under a name by a different one), NilPtr is nil.     *)
(***************************************************************************)
EXTENDS Integers, Sequences, FiniteSets, TLC

\* ------------------------------------------------------------------ bounds
MaxData == 1        \* distinct non-nil HookData values a hook may return
MaxVals == 2        \* distinct environment variable values
MaxErr == 2         \* distinct error values a hook may return

DataValues == 1..MaxData
\* the environment variables hooks set
Keys == {"K"}
Vals == 1..MaxVals
HookErrors == 1..MaxErr

\* ------------------------------------------------------------ hook names
HookNames == {"validate", "task_dir", "artifacts", "shutdown_delay", "vault", "template"}

Phases == {"prestart", "poststart", "stop", "update", "kill"}

NilPtr == "nil"

\* state.HookState{} and the value standing for "no entry in the map"
EmptyHookState == [present |-> TRUE, Data |-> 0, PrestartDone |-> FALSE]
NoHookState == [present |-> FALSE, Data |-> 0, PrestartDone |-> FALSE]

EnvMaps == [Keys -> {0} \cup Vals]
EmptyEnv == [k \in Keys |-> 0]

\* the tasks a runner may be built for: task.Vault nil or a stanza, task.Templates empty or not
Tasks == [Vault : {"nil", "stanza"}, Templates : {<<>>, <<"tmpl">>}]

\* ------------------------------------------------------------- initHooks
initHooks_NoVaultCheck(task) ==
    LET static == <<"validate", "task_dir", "artifacts", "shutdown_delay">>
        withVault == Append(static, "vault")
    IN  IF Len(task.Templates) # 0 THEN Append(withVault, "template") ELSE withVault

initHooks(task) ==
    LET static == <<"validate", "task_dir", "artifacts", "shutdown_delay">>
        withVault == IF task.Vault # "nil" THEN Append(static, "vault") ELSE static
    IN  IF Len(task.Templates) # 0 THEN Append(withVault, "template") ELSE withVault


\* --------------------------------------------------------------- state
VARIABLES
    task,            \* tr.Task(): the task specification the runner was built for
    implements,      \* which capability interfaces each hook object satisfies
    runnerHooks,     \* tr.runnerHooks
    allocTerminal,   \* what tr.Alloc().TerminalStatus() answered to the running prestart
    trCtxCanceled,   \* tr.ctx was canceled before the running kill was called
    localState,      \* tr.localState.Hooks: hook name -> HookState or NoHookState
    persisted,       \* the snapshot last written by tr.persistLocalState()
    envvars,         \* the generic environment held by tr.envBuilder
    phase,           \* the phase runner being executed, "idle" between passes
    pc,              \* position inside the running phase runner
    idx,             \* position of the range loop in tr.runnerHooks
    req,             \* the TaskPrestartRequest built for the current hook (its TaskEnv)
    origHookState,   \* prestart's local origHookState (a pointer)
    hookState,       \* prestart's local hookState (a pointer)
    resp,            \* the response the current hook filled in
    result,          \* what the phase runner returned
    calls,           \* history: how often each hook was invoked in this pass
    ctxs,            \* history: the contexts hooks were invoked with in this pass
    observed,        \* history: the value of the entry origHookState pointed to when it was read
    retDone,         \* history: Data of a Done=true, non-nil HookData response in this pass
    lastRet,         \* history: last value returned for each environment key in this pass
    persistCalls,    \* history: persistLocalState calls made for each hook in this pass
    logged,          \* history: hooks for which logger.Error was called in this pass
    failed,          \* history: hooks that returned an error in this pass
    lastErr,         \* history: the error of the hook that ended this pass
    reachedDone,     \* history: hooks whose entry was present with Done=true when prestart read it
    accesses,        \* history: the accesses to tr.localState.Hooks and its entries in this pass
    completed        \* history: hooks that returned Done=true with HookData to this runner

vars == <<task, implements, runnerHooks, allocTerminal, trCtxCanceled, localState, persisted,
          envvars, phase, pc, idx, req, origHookState, hookState, resp, result, calls,
          ctxs, observed, retDone, lastRet, persistCalls, logged, failed, lastErr,
          reachedDone, accesses, completed>>

\* what is remembered across the passes of a runner
memory == <<completed>>

progVars == <<task, implements, runnerHooks, localState, persisted, envvars>>

\* ------------------------------------------------------- values and helpers
NilError == [kind |-> "nil", hook |-> "", cause |-> 0]
NoResult == [kind |-> "none", hook |-> "", cause |-> 0]

NoResp == [HookData |-> 0, Done |-> FALSE, Env |-> EmptyEnv]

NoReq == [TaskEnv |-> EmptyEnv]

ZeroCalls == [h \in HookNames |-> 0]

\* position of a hook in the list, 0 if it is not in it
Pos(h) == IF \E i \in 1..Len(runnerHooks) : runnerHooks[i] = h
          THEN CHOOSE i \in 1..Len(runnerHooks) : runnerHooks[i] = h
          ELSE 0

\* hook.(interfaces.TaskXxxHook): the type assertion each runner makes
Implements_Always(h, p) == TRUE

Implements(h, p) == p \in implements[h]

\* a context is canceled: tr.ctx when the runner canceled it, context.Background() never
CtxCanceled(c) == c = "tr.ctx" /\ trCtxCanceled

\* tr.envBuilder.Build(): the snapshot of the environment
Build == envvars

\* tr.envBuilder.SetGenericEnv(env): entries of env override, the others stay
SetGenericEnv(cur, env) == [k \in Keys |-> IF env[k] # 0 THEN env[k] ELSE cur[k]]

\* an access to tr.localState.Hooks ("map") or to a HookState stored in it ("entry")
Access(line, op, obj) == [line |-> line, op |-> op, obj |-> obj]

\* tr.localStateLock as prestart holds it at a line: RLock at 90 to RUnlock at 92, Lock at
\* 115 to Unlock at 126
LockAt(line) ==
    IF line \in 91..91 THEN "shared"
    ELSE IF line \in 116..125 THEN "exclusive"
    ELSE "none"

\* *p for a *HookState p stored in the map
Deref(p) == localState[p]

\* (*HookState).Equal
Equal(h, o) ==
    IF h = NilPtr \/ o = NilPtr
    THEN h = o
    ELSE /\ Deref(h).PrestartDone = Deref(o).PrestartDone
         /\ Deref(h).Data = Deref(o).Data


\* line 93: the hook already completed its one-time setup
SkipDone_Never(o) == FALSE

SkipDone_Present(o) == o # NilPtr

SkipDone(o) == o # NilPtr /\ Deref(o).PrestartDone

\* line 110: structs.WrapRecoverable(fmt.Sprintf("prestart hook %q failed: %v", name, err), err)
PrestartHookError_Plain(name, err) == [kind |-> "plain", hook |-> name, cause |-> err]

PrestartHookError(name, err) == [kind |-> "recoverable", hook |-> name, cause |-> err]

\* line 132: the error of tr.persistLocalState(), returned as it is
PersistError == [kind |-> "persist", hook |-> "", cause |-> 0]

\* line 129: !hookState.Equal(origHookState)
StateChanged_Always(h, o) == TRUE

StateChanged(h, o) == ~Equal(h, o)

\* line 138: len(resp.Env) != 0
HasEnv_Never(r) == FALSE

HasEnv(r) == \E k \in Keys : r.Env[k] # 0

\* the capabilities the hook objects may have; the hook types are defined outside this file
CapabilityProfiles ==
    { [h \in HookNames |->
         CASE h = "validate"       -> {"prestart", "poststart"}
           [] h = "task_dir"       -> {"poststart", "stop", "update"}
           [] h = "artifacts"      -> {"prestart", "update", "kill"}
           [] h = "shutdown_delay" -> {"stop", "kill"}
           [] h = "vault"          -> {"poststart", "stop"}
           [] h = "template"       -> {"update", "kill"}] }

\* ---------------------------------------------------------------- Init
NoLocalState == [h \in HookNames |-> NoHookState]

Init ==
    /\ task \in Tasks
    /\ implements \in CapabilityProfiles
    /\ runnerHooks = initHooks(task)
    /\ allocTerminal = FALSE
    /\ trCtxCanceled = FALSE
    /\ localState = NoLocalState
    /\ persisted = NoLocalState
    /\ envvars = EmptyEnv
    /\ phase = "idle"
    /\ pc = "idle"
    /\ idx = 0
    /\ req = NoReq
    /\ origHookState = NilPtr
    /\ hookState = NilPtr
    /\ resp = NoResp
    /\ result = NoResult
    /\ calls = ZeroCalls
    /\ ctxs = {}
    /\ observed = NoHookState
    /\ retDone = ZeroCalls
    /\ lastRet = EmptyEnv
    /\ persistCalls = ZeroCalls
    /\ logged = {}
    /\ failed = {}
    /\ lastErr = 0
    /\ reachedDone = {}
    /\ accesses = {}
    /\ completed = {}

\* the history of a pass starts empty
ResetLocals ==
    /\ req' = NoReq
    /\ origHookState' = NilPtr
    /\ hookState' = NilPtr
    /\ resp' = NoResp
    /\ calls' = ZeroCalls
    /\ ctxs' = {}
    /\ observed' = NoHookState
    /\ retDone' = ZeroCalls
    /\ lastRet' = EmptyEnv
    /\ persistCalls' = ZeroCalls
    /\ logged' = {}
    /\ failed' = {}
    /\ lastErr' = 0
    /\ reachedDone' = {}
    /\ accesses' = {}

ResetPass ==
    /\ allocTerminal' = FALSE
    /\ trCtxCanceled' = FALSE
    /\ ResetLocals

history == <<calls, ctxs, retDone, lastRet, persistCalls, logged, failed>>
locals == <<allocTerminal, trCtxCanceled, req, origHookState, hookState, resp, observed>>

\* ------------------------------------------------------------- prestart
\* line 61: if tr.Alloc().TerminalStatus()
prestart_TerminalCheck_Never(terminal) == FALSE

prestart_TerminalCheck(terminal) == terminal

\* lines 55-74: entry; tr.Alloc() hands out the allocation as its owner last set it, so
\* TerminalStatus() is an input of each call; a terminal allocation returns nil at once
prestart_Enter ==
    /\ phase = "idle"
    /\ phase' = "prestart"
    /\ ResetLocals
    /\ trCtxCanceled' = FALSE
    /\ \E terminal \in BOOLEAN :
          /\ allocTerminal' = terminal
          /\ IF prestart_TerminalCheck(terminal)
             THEN /\ pc' = "done"
                  /\ result' = NilError
                  /\ idx' = 0
             ELSE /\ pc' = "head"
                  /\ result' = NoResult
                  /\ idx' = 1
    /\ UNCHANGED progVars
    /\ UNCHANGED memory

\* lines 75-88 and 148: the range loop: end of list, a hook without Prestart, or the
\* request; the variables declared in the loop body are new in every turn
prestart_Head ==
    /\ phase = "prestart" /\ pc = "head"
    /\ IF idx > Len(runnerHooks)
       THEN /\ pc' = "done"
            /\ result' = NilError
            /\ UNCHANGED <<idx, req>>
       ELSE IF ~Implements(runnerHooks[idx], "prestart")
            THEN /\ idx' = idx + 1
                 /\ UNCHANGED <<pc, result, req>>
            ELSE /\ req' = [TaskEnv |-> Build]
                 /\ pc' = "read"
                 /\ UNCHANGED <<idx, result>>
    /\ origHookState' = NilPtr
    /\ hookState' = NilPtr
    /\ resp' = NoResp
    /\ observed' = NoHookState
    /\ UNCHANGED <<progVars, allocTerminal, trCtxCanceled, phase, history, lastErr, reachedDone>>
    /\ UNCHANGED <<accesses, memory>>

\* lines 90-96: read the prior state under the read lock; skip a hook that is done
prestart_Read ==
    /\ phase = "prestart" /\ pc = "read"
    /\ LET name == runnerHooks[idx]
           orig == IF localState[name].present THEN name ELSE NilPtr
       IN  /\ origHookState' = orig
           /\ observed' = localState[name]
           /\ reachedDone' = IF localState[name].present /\ localState[name].PrestartDone
                             THEN reachedDone \cup {name}
                             ELSE reachedDone
           /\ IF SkipDone(orig)
              THEN /\ idx' = idx + 1
                   /\ pc' = "head"
              ELSE /\ pc' = "invoke"
                   /\ UNCHANGED idx
    /\ UNCHANGED <<progVars, allocTerminal, trCtxCanceled, phase, req, hookState, resp, result, history>>
    /\ UNCHANGED lastErr
    /\ accesses' = accesses
                    \cup {Access(91, "read", "map")}
                    \cup (IF localState[runnerHooks[idx]].present
                          THEN {Access(93, "read", "entry")} ELSE {})
    /\ UNCHANGED memory

\* lines 98-111: run the hook; its error ends the pass.  The hook fills *resp; the
\* model draws each field of the response where the runner first reads it (HookData and
\* Done at line 122, Env at line 138), which no step in between can tell apart.
prestart_Invoke ==
    /\ phase = "prestart" /\ pc = "invoke"
    /\ LET name == runnerHooks[idx]
       IN  /\ calls' = [calls EXCEPT ![name] = @ + 1]
           /\ ctxs' = ctxs \cup {"tr.ctx"}
           /\ \/ \E err \in HookErrors :
                    /\ result' = PrestartHookError(name, err)
                    /\ failed' = failed \cup {name}
                    /\ lastErr' = err
                    /\ pc' = "done"
              \/ /\ pc' = "store"
                 /\ UNCHANGED <<result, failed, lastErr>>
    /\ UNCHANGED <<progVars, phase, idx, locals, retDone, lastRet, persistCalls, logged>>
    /\ UNCHANGED reachedDone
    /\ UNCHANGED <<accesses, memory>>

\* lines 122-125: Data and PrestartDone are taken from a response that carries HookData
StoreResponse_Always(cur, data, done) == [cur EXCEPT !.Data = data, !.PrestartDone = done]

StoreResponse(cur, data, done) ==
    IF data # 0
    THEN [cur EXCEPT !.Data = data, !.PrestartDone = done]
    ELSE cur

\* lines 114-126: under the write lock, create the entry if there is none and record
\* Data and Done of a response that carries HookData
prestart_Store ==
    /\ phase = "prestart" /\ pc = "store"
    /\ \E data \in {0} \cup DataValues, done \in BOOLEAN :
          LET name == runnerHooks[idx]
              cur == IF localState[name].present THEN localState[name] ELSE EmptyHookState
              new == StoreResponse(cur, data, done)
          IN  /\ resp' = [resp EXCEPT !.HookData = data, !.Done = done]
              /\ retDone' = [retDone EXCEPT ![name] = IF done /\ data # 0 THEN data ELSE 0]
              /\ hookState' = name
              /\ localState' = [localState EXCEPT ![name] = new]
              /\ accesses' = accesses
                    \cup {Access(116, "read", "map")}
                    \cup (IF localState[name].present
                          THEN {} ELSE {Access(119, "write", "map")})
                    \cup (IF data # 0 THEN {Access(123, "write", "entry")} ELSE {})
              /\ completed' = IF done /\ data # 0 THEN completed \cup {name} ELSE completed
    /\ pc' = "persist"
    /\ UNCHANGED <<task, implements, runnerHooks, allocTerminal, trCtxCanceled, persisted,
                   envvars, phase, idx, req, origHookState, observed, result, calls, ctxs,
                   lastRet, persistCalls, logged, failed>>
    /\ UNCHANGED <<lastErr, reachedDone>>

\* lines 131-133: a failed persistLocalState returns its error from prestart
prestart_OnPersistError_Continue == [pc |-> "env", result |-> NoResult]

prestart_OnPersistError == [pc |-> "done", result |-> PersistError]

\* lines 128-135: persist the whole map if the hook state changed; a failure ends the pass
prestart_Persist ==
    /\ phase = "prestart" /\ pc = "persist"
    /\ LET name == runnerHooks[idx]
       IN  IF StateChanged(hookState, origHookState)
           THEN /\ persistCalls' = [persistCalls EXCEPT ![name] = @ + 1]
                /\ \/ /\ persisted' = localState
                      /\ pc' = "env"
                      /\ UNCHANGED result
                   \/ /\ result' = prestart_OnPersistError.result
                      /\ pc' = prestart_OnPersistError.pc
                      /\ UNCHANGED persisted
           ELSE /\ pc' = "env"
                /\ UNCHANGED <<persisted, result, persistCalls>>
    /\ UNCHANGED <<task, implements, runnerHooks, localState,
                   envvars, phase, idx, locals, calls, ctxs, retDone, lastRet, logged, failed>>
    /\ UNCHANGED <<lastErr, reachedDone>>
    /\ accesses' = accesses
                    \cup (IF hookState # NilPtr /\ origHookState # NilPtr
                          THEN {Access(129, "read", "entry")} ELSE {})
                    \cup (IF StateChanged(hookState, origHookState)
                          THEN {Access(130, "write", "map")} ELSE {})
    /\ UNCHANGED memory

\* lines 137-146: merge the environment the hook returned, then the next hook
prestart_Env ==
    /\ phase = "prestart" /\ pc = "env"
    /\ \E env \in EnvMaps :
          LET r == [resp EXCEPT !.Env = env]
          IN  /\ lastRet' = SetGenericEnv(lastRet, env)
              /\ envvars' = IF HasEnv(r) THEN SetGenericEnv(envvars, r.Env) ELSE envvars
    /\ idx' = idx + 1
    /\ pc' = "head"
    /\ UNCHANGED <<task, implements, runnerHooks, localState,
                   persisted, phase, locals, result, calls, ctxs, retDone, persistCalls,
                   logged, failed>>
    /\ UNCHANGED <<lastErr, reachedDone>>
    /\ UNCHANGED <<accesses, memory>>

\* ------------------------------------------------------------ poststart
\* lines 176-178, 216-218, 264-265, 305-306: the loops of poststart, stop, updateHooks and
\* kill declare the response, hand it to the hook and never read it: nothing is stored,
\* persisted or merged
DiscardResponse_Persist ==
    /\ persisted' = localState
    /\ persistCalls' = [h \in HookNames |-> 1]
    /\ UNCHANGED <<localState, envvars>>

DiscardResponse == UNCHANGED <<localState, persisted, envvars, persistCalls>>

\* line 179: fmt.Errorf("poststart hook %q failed: %v", name, err)
PoststartHookError_Recoverable(name, err) == [kind |-> "recoverable", hook |-> name, cause |-> err]

PoststartHookError(name, err) == [kind |-> "plain", hook |-> name, cause |-> err]

\* lines 152-160
poststart_Enter ==
    /\ phase = "idle"
    /\ result' = NoResult
    /\ phase' = "poststart"
    /\ ResetPass
    /\ pc' = "head"
    /\ idx' = 1
    /\ UNCHANGED progVars
    /\ UNCHANGED memory

\* lines 162-188: one turn of the range loop
poststart_Iter ==
    /\ phase = "poststart" /\ pc = "head"
    /\ IF idx > Len(runnerHooks)
       THEN /\ pc' = "done"
            /\ result' = NilError
            /\ UNCHANGED <<idx, calls, ctxs, failed, lastErr>>
       ELSE IF ~Implements(runnerHooks[idx], "poststart")
            THEN /\ idx' = idx + 1
                 /\ UNCHANGED <<pc, result, calls, ctxs, failed, lastErr>>
            ELSE LET name == runnerHooks[idx]
                 IN  /\ calls' = [calls EXCEPT ![name] = @ + 1]
                     /\ ctxs' = ctxs \cup {"tr.ctx"}
                     /\ \/ \E err \in HookErrors :
                              /\ result' = PoststartHookError(name, err)
                              /\ failed' = failed \cup {name}
                              /\ lastErr' = err
                              /\ pc' = "done"
                              /\ UNCHANGED idx
                        \/ /\ idx' = idx + 1
                           /\ UNCHANGED <<pc, result, failed, lastErr>>
    /\ DiscardResponse
    /\ UNCHANGED <<task, implements, runnerHooks, phase, locals, retDone, lastRet, logged>>
    /\ UNCHANGED reachedDone
    /\ UNCHANGED <<accesses, memory>>

\* ----------------------------------------------------------------- stop
\* line 219: fmt.Errorf("stop hook %q failed: %v", name, err)
StopHookError(name, err) == [kind |-> "plain", hook |-> name, cause |-> err]

\* lines 192-200
stop_Enter ==
    /\ phase = "idle"
    /\ result' = NoResult
    /\ phase' = "stop"
    /\ ResetPass
    /\ pc' = "head"
    /\ idx' = 1
    /\ UNCHANGED progVars
    /\ UNCHANGED memory

\* lines 202-228: one turn of the range loop
stop_Iter ==
    /\ phase = "stop" /\ pc = "head"
    /\ IF idx > Len(runnerHooks)
       THEN /\ pc' = "done"
            /\ result' = NilError
            /\ UNCHANGED <<idx, calls, ctxs, failed, lastErr>>
       ELSE IF ~Implements(runnerHooks[idx], "stop")
            THEN /\ idx' = idx + 1
                 /\ UNCHANGED <<pc, result, calls, ctxs, failed, lastErr>>
            ELSE LET name == runnerHooks[idx]
                 IN  /\ calls' = [calls EXCEPT ![name] = @ + 1]
                     /\ ctxs' = ctxs \cup {"tr.ctx"}
                     /\ \/ \E err \in HookErrors :
                              /\ result' = StopHookError(name, err)
                              /\ failed' = failed \cup {name}
                              /\ lastErr' = err
                              /\ pc' = "done"
                              /\ UNCHANGED idx
                        \/ /\ idx' = idx + 1
                           /\ UNCHANGED <<pc, result, failed, lastErr>>
    /\ DiscardResponse
    /\ UNCHANGED <<task, implements, runnerHooks, phase, locals, retDone, lastRet, logged>>
    /\ UNCHANGED reachedDone
    /\ UNCHANGED <<accesses, memory>>

\* ---------------------------------------------------------- updateHooks
\* updateHooks and kill return nothing
Void == [kind |-> "void", hook |-> "", cause |-> 0]

\* lines 265-273: after a failed hook the loop goes on with the next one
updateHooks_OnError_Again(i) == [pc |-> "head", idx |-> i]

updateHooks_OnError_Stop(i) == [pc |-> "done", idx |-> i]

updateHooks_OnError(i) == [pc |-> "head", idx |-> i + 1]

\* lines 232-240
updateHooks_Enter ==
    /\ phase = "idle"
    /\ result' = NoResult
    /\ phase' = "update"
    /\ ResetPass
    /\ pc' = "head"
    /\ idx' = 1
    /\ UNCHANGED progVars
    /\ UNCHANGED memory

\* lines 242-274: one turn of the range loop
updateHooks_Iter ==
    /\ phase = "update" /\ pc = "head"
    /\ IF idx > Len(runnerHooks)
       THEN /\ pc' = "done"
            /\ UNCHANGED <<idx, calls, ctxs, failed, logged>>
       ELSE IF ~Implements(runnerHooks[idx], "update")
            THEN /\ idx' = idx + 1
                 /\ UNCHANGED <<pc, calls, ctxs, failed, logged>>
            ELSE LET name == runnerHooks[idx]
                 IN  /\ calls' = [calls EXCEPT ![name] = @ + 1]
                     /\ ctxs' = ctxs \cup {"tr.ctx"}
                     /\ \/ \E err \in HookErrors :
                              /\ logged' = logged \cup {name}
                              /\ failed' = failed \cup {name}
                              /\ pc' = updateHooks_OnError(idx).pc
                              /\ idx' = updateHooks_OnError(idx).idx
                        \/ /\ idx' = idx + 1
                           /\ UNCHANGED <<pc, failed, logged>>
    /\ result' = IF pc' = "done" THEN Void ELSE result
    /\ DiscardResponse
    /\ UNCHANGED <<task, implements, runnerHooks, phase, locals, retDone, lastRet>>
    /\ UNCHANGED reachedDone
    /\ UNCHANGED lastErr
    /\ UNCHANGED <<accesses, memory>>

\* ----------------------------------------------------------------- kill
\* line 306: the context the kill hooks are given
KillContext_Runner == "tr.ctx"

KillContext == "background"

\* lines 306-314: after a failed hook the loop goes on with the next one
kill_OnError(i) == [pc |-> "head", idx |-> i + 1]

\* lines 277-285; the owner of the runner may have canceled tr.ctx before it calls kill
kill_Enter ==
    /\ phase = "idle"
    /\ result' = NoResult
    /\ phase' = "kill"
    /\ ResetLocals
    /\ allocTerminal' = FALSE
    /\ trCtxCanceled' \in BOOLEAN
    /\ pc' = "head"
    /\ idx' = 1
    /\ UNCHANGED <<task, implements, runnerHooks, localState, persisted, envvars>>
    /\ UNCHANGED memory

\* lines 287-315: one turn of the range loop
kill_Iter ==
    /\ phase = "kill" /\ pc = "head"
    /\ IF idx > Len(runnerHooks)
       THEN /\ pc' = "done"
            /\ UNCHANGED <<idx, calls, ctxs, failed, logged>>
       ELSE IF ~Implements(runnerHooks[idx], "kill")
            THEN /\ idx' = idx + 1
                 /\ UNCHANGED <<pc, calls, ctxs, failed, logged>>
            ELSE LET name == runnerHooks[idx]
                 IN  /\ calls' = [calls EXCEPT ![name] = @ + 1]
                     /\ ctxs' = ctxs \cup {KillContext}
                     /\ \/ \E err \in HookErrors :
                              /\ logged' = logged \cup {name}
                              /\ failed' = failed \cup {name}
                              /\ pc' = kill_OnError(idx).pc
                              /\ idx' = kill_OnError(idx).idx
                        \/ /\ idx' = idx + 1
                           /\ UNCHANGED <<pc, failed, logged>>
    /\ result' = IF pc' = "done" THEN Void ELSE result
    /\ DiscardResponse
    /\ UNCHANGED <<task, implements, runnerHooks, phase, locals, retDone, lastRet>>
    /\ UNCHANGED reachedDone
    /\ UNCHANGED lastErr
    /\ UNCHANGED <<accesses, memory>>

\* ---------------------------------------------------------- environment
\* the agent restarts: a new runner is built for the same task and its local state is
\* what was last persisted
Restart ==
    /\ runnerHooks' = initHooks(task)
    /\ localState' = persisted
    /\ envvars' = EmptyEnv
    /\ phase' = "idle"
    /\ pc' = "idle"
    /\ idx' = 0
    /\ result' = NoResult
    /\ ResetPass
    /\ UNCHANGED <<task, implements, persisted>>
    /\ completed' = {}

\* the runner returned to its caller
Return ==
    /\ pc = "done"
    /\ phase' = "idle"
    /\ pc' = "idle"
    /\ idx' = 0
    /\ result' = NoResult
    /\ ResetPass
    /\ UNCHANGED progVars
    /\ UNCHANGED memory

Next ==
    \/ prestart_Enter
    \/ prestart_Head
    \/ prestart_Read
    \/ prestart_Invoke
    \/ prestart_Store
    \/ prestart_Persist
    \/ prestart_Env
    \/ poststart_Enter
    \/ poststart_Iter
    \/ stop_Enter
    \/ stop_Iter
    \/ updateHooks_Enter
    \/ updateHooks_Iter
    \/ kill_Enter
    \/ kill_Iter
    \/ Return
    \/ Restart

Spec == Init /\ [][Next]_vars

\* the steps of a running pass; each is one call on the goroutine that runs the phase
\* runner, which goes on as long as the calls it makes return
PassStep ==
    \/ prestart_Head
    \/ prestart_Read
    \/ prestart_Invoke
    \/ prestart_Store
    \/ prestart_Persist
    \/ prestart_Env
    \/ poststart_Iter
    \/ stop_Iter
    \/ updateHooks_Iter
    \/ kill_Iter

FairSpec == Spec /\ WF_vars(PassStep)


\* ---------------------------------------------------------------- claims
InList(h) == Pos(h) > 0

DoneState(d) == [present |-> TRUE, Data |-> d, PrestartDone |-> TRUE]

\* C1: in a prestart pass, a hook whose entry was present with Done=true when the pass
\* read it is not invoked in that pass, and the loop has moved on past it.
C1_DoneHookSkipped ==
    phase = "prestart" =>
        \A h \in reachedDone : calls[h] = 0 /\ Pos(h) < idx

\* a pass skipped a done hook and invoked a hook after it
C1_Witness ==
    /\ phase = "prestart"
    /\ \E h \in reachedDone : \E g \in HookNames : Pos(g) > Pos(h) /\ calls[g] = 1

\* C2: when a prestart pass in which a hook returned Done=true with HookData D has returned
\* nil, a restart leaves exactly {Data: D, Done: true} under that hook's name in the map.
C2_DoneSurvivesRestart ==
    [][(phase = "prestart" /\ pc = "done" /\ result = NilError /\ Restart)
          => \A h \in HookNames : retDone[h] # 0 => localState'[h] = DoneState(retDone[h])]_vars

\* C3: when an invoked prestart hook returns an error, the pass has ended with a recoverable
\* error that carries the hook's error and names the hook, and no later hook was invoked.
C3_PrestartFailFast ==
    phase = "prestart" =>
        \A h \in failed :
            /\ pc = "done"
            /\ result = [kind |-> "recoverable", hook |-> h, cause |-> lastErr]
            /\ lastErr \in HookErrors
            /\ \A g \in HookNames : Pos(g) > Pos(h) => calls[g] = 0

\* a prestart hook failed although a later hook was still to run
C3_Witness ==
    /\ phase = "prestart"
    /\ \E h \in failed : \E g \in HookNames :
          /\ Pos(g) > Pos(h)
          /\ "prestart" \in implements[g]
          /\ ~localState[g].PrestartDone

\* C4: the request of every prestart hook that is invoked carries, for each key a hook
\* invoked earlier in the pass returned, the value returned last for it.
C4_EnvVisibleToLaterHooks ==
    (phase = "prestart" /\ pc \in {"invoke", "store", "persist", "env"}) =>
        \A k \in Keys : lastRet[k] # 0 => req.TaskEnv[k] = lastRet[k]

\* a hook is invoked with an entry an earlier hook of the pass returned, which replaced
\* the value the environment held before
C4_Witness ==
    /\ phase = "prestart" /\ pc = "store"
    /\ \E k \in Keys : lastRet[k] # 0 /\ req.TaskEnv[k] = lastRet[k]
    /\ \E h \in HookNames : calls[h] = 1 /\ Pos(h) < idx


\* the hooks of the list that have the capability of a phase
Capable(p) == {h \in HookNames : InList(h) /\ p \in implements[h]}

\* C5: when an update pass has ended, every hook with the update capability was invoked
\* exactly once, every failure was logged, and nothing was returned to the caller.
C5_UpdateBestEffort ==
    phase = "update" =>
        /\ \A h \in HookNames : calls[h] <= 1
        /\ logged = failed
        /\ pc = "done" => /\ \A h \in Capable("update") : calls[h] = 1
                          /\ result = Void

\* an update pass ended in which a hook failed and a later hook was invoked all the same
C5_Witness ==
    /\ phase = "update" /\ pc = "done"
    /\ \E h \in failed : \E g \in Capable("update") : Pos(g) > Pos(h) /\ calls[g] = 1

\* C6: in a kill pass no hook is given a canceled context, also when tr.ctx was canceled
\* before; when the pass has ended every hook with the kill capability was invoked
\* exactly once and every failure was logged.
C6_KillRunsWithLiveContext ==
    phase = "kill" =>
        /\ \A c \in ctxs : ~CtxCanceled(c)
        /\ \A h \in HookNames : calls[h] <= 1
        /\ logged = failed
        /\ pc = "done" => \A h \in Capable("kill") : calls[h] = 1

\* a kill pass entered with tr.ctx canceled ended; a hook failed and a later one was invoked
C6_Witness ==
    /\ phase = "kill" /\ pc = "done" /\ trCtxCanceled
    /\ ctxs # {}
    /\ \E h \in failed : \E g \in Capable("kill") : Pos(g) > Pos(h) /\ calls[g] = 1

C8_OnlyCapableHooksInvoked ==
    phase \in Phases => \A h \in HookNames : calls[h] > 0 => phase \in implements[h]

\* a pass went past a hook without the capability and invoked a later hook
C8_Witness ==
    /\ phase \in Phases
    /\ \E h \in HookNames, g \in HookNames :
          /\ InList(h) /\ phase \notin implements[h]
          /\ Pos(h) < Pos(g)
          /\ calls[g] = 1

\* the current hook of a prestart pass is past the decision to persist
AfterPersistDecision ==
    /\ phase = "prestart"
    /\ idx \in 1..Len(runnerHooks)
    /\ pc = "env" \/ (pc = "done" /\ result = PersistError)

C10_HookList ==
    LET hasVault == task.Vault # "nil"
        hasTemplates == Len(task.Templates) # 0
        n == (IF hasVault THEN 1 ELSE 0) + (IF hasTemplates THEN 1 ELSE 0)
    IN  /\ Len(runnerHooks) = 4 + n
        /\ SubSeq(runnerHooks, 1, 4) = <<"validate", "task_dir", "artifacts", "shutdown_delay">>
        /\ hasVault <=> InList("vault")
        /\ hasTemplates <=> InList("template")
        /\ hasVault => runnerHooks[5] = "vault"
        /\ hasTemplates => runnerHooks[Len(runnerHooks)] = "template"
        /\ \A i, j \in 1..Len(runnerHooks) : runnerHooks[i] = runnerHooks[j] => i = j

\* a runner rebuilt after a restart for a task with templates and no Vault stanza has five
\* hooks, the last being template
C10_Witness ==
    /\ task.Vault = "nil" /\ Len(task.Templates) # 0
    /\ Len(runnerHooks) = 5 /\ runnerHooks[5] = "template"
    /\ phase = "prestart" /\ pc = "done"

\* C11: a prestart pass entered with a terminal allocation is at once at its return with
\* success, has invoked no hook and persisted nothing, and entering it left the Local
\* State Map, the persisted snapshot and the environment as they were.
C11_TerminalPrestartNoop ==
    [][(phase' = "prestart" /\ allocTerminal') =>
          /\ pc' = "done"
          /\ result' = NilError
          /\ calls' = ZeroCalls
          /\ persistCalls' = ZeroCalls
          /\ localState' = localState
          /\ persisted' = persisted
          /\ envvars' = envvars]_vars

\* a terminal pass over a runner that has prestart work left: a hook in the list that
\* implements prestart and is not done, and an environment that is not empty
C11_Witness ==
    /\ phase = "prestart" /\ allocTerminal /\ pc = "done"
    /\ envvars # EmptyEnv
    /\ \E h \in HookNames :
          /\ InList(h) /\ Implements(h, "prestart")
          /\ ~(localState[h].present /\ localState[h].PrestartDone)

\* C12: once the current hook of a prestart pass has returned and the pass goes on to merge
\* its environment, a stored state that differs (in Data or Done) from the state read before
\* the invocation has been persisted: one persistence call for the hook, and the snapshot
\* is the whole map.  An entry that existed with Done=false is included.
C12_ChangePersistedBeforeNextHook ==
    (phase = "prestart" /\ pc = "env") =>
        LET name == runnerHooks[idx]
        IN  (localState[name].Data # observed.Data
                \/ localState[name].PrestartDone # observed.PrestartDone)
            => /\ persistCalls[name] = 1
               /\ persisted = localState

\* persistence was invoked for the current hook of a prestart pass and the snapshot was not
\* written
PersistFailed ==
    /\ phase = "prestart"
    /\ idx \in 1..Len(runnerHooks)
    /\ pc # "persist"
    /\ persistCalls[runnerHooks[idx]] = 1
    /\ persisted # localState

\* C13: when persisting fails for a hook of a prestart pass, the pass is at its return with
\* an error although no hook failed, no hook later in the list was invoked, and the
\* environment is still the one the hook's request was built from.
C13_PersistFailureEndsPass ==
    PersistFailed =>
        /\ pc = "done"
        /\ result.kind = "persist"
        /\ failed = {}
        /\ \A g \in HookNames : Pos(g) > idx => calls[g] = 0
        /\ envvars = req.TaskEnv

\* persisting failed for validate, which was invoked, while artifacts, the prestart hook
\* after it, waits without an entry
C13_Witness ==
    /\ PersistFailed
    /\ runnerHooks[idx] = "validate" /\ calls["validate"] = 1
    /\ Implements("artifacts", "prestart") /\ ~localState["artifacts"].present

\* the entry of hook h is marked Done
MarkedDone(h) == localState[h].present /\ localState[h].PrestartDone

\* C14: the Done mark of a hook's entry turns true only when a response of the hook with
\* Done=true is stored, or by a reload from a snapshot that has it; the Done mark in the
\* snapshot turns true only by persisting a map that has it; and in a prestart pass of a
\* non-terminal allocation every prestart hook the loop has gone past whose entry is not
\* marked Done was invoked in this pass.  So a hook that never returned Done=true is
\* invoked in every pass that reaches it, in the same runner and after a reload.
C14_NotDoneInvokedAgain ==
    /\ [][\A h \in HookNames :
             /\ (~MarkedDone(h) /\ MarkedDone(h)') =>
                    \/ /\ phase = "prestart" /\ pc = "store"
                       /\ runnerHooks[idx] = h
                       /\ resp'.Done
                    \/ /\ localState' = persisted
                       /\ persisted[h].PrestartDone
             /\ (~persisted[h].PrestartDone /\ persisted'[h].PrestartDone) =>
                    /\ MarkedDone(h)
                    /\ persisted' = localState]_vars
    /\ []((phase = "prestart" /\ ~allocTerminal) =>
             \A h \in HookNames :
                 (InList(h) /\ Implements(h, "prestart") /\ Pos(h) < idx /\ ~MarkedDone(h))
                 => calls[h] = 1)

\* a hook whose entry is not marked Done has just been invoked again: its entry holds the
\* data of an earlier pass, its response in this pass carried none
C14_Witness ==
    /\ phase = "prestart" /\ ~allocTerminal /\ pc = "head"
    /\ \E h \in HookNames :
          /\ InList(h) /\ Implements(h, "prestart") /\ idx = Pos(h) + 1
          /\ ~MarkedDone(h)
          /\ h \notin reachedDone
          /\ calls[h] = 1
          /\ resp.HookData = 0 /\ localState[h].Data # 0

\* C15: every access a prestart pass made to the Local State Map was made with the state
\* lock held: a read with the shared or the exclusive lock, a write with the exclusive lock.
C15_MapAccessUnderLock ==
    \A a \in accesses :
        a.obj = "map" =>
            /\ a.op = "read" => LockAt(a.line) \in {"shared", "exclusive"}
            /\ a.op = "write" => LockAt(a.line) = "exclusive"

OtherPhases == {"poststart", "stop", "update", "kill"}

\* C16: no step that enters or continues a pass of poststart, stop, update or kill changes
\* the Local State Map, the persisted snapshot or the environment accumulator, or invokes
\* persistence.
C16_OtherPhasesLeaveState ==
    [][phase' \in OtherPhases =>
          /\ localState' = localState
          /\ persisted' = persisted
          /\ envvars' = envvars
          /\ persistCalls' = ZeroCalls]_vars

\* a kill pass in which a hook failed is at its return, over a runner whose map differs
\* from the snapshot and whose environment is not empty
C16_Witness ==
    /\ phase = "kill" /\ pc = "done"
    /\ failed # {}
    /\ localState # persisted
    /\ envvars # EmptyEnv

\* C17: in a pass of any phase an invocation is of the hook the loop stands at, which was
\* not invoked before in the pass, and every hook invoked before it in the pass stands
\* earlier in the list (an invocation is one synchronous call, so it has returned when the
\* next begins); and no pass runs forever: at any time the runner will again be at the
\* return of a pass or between passes (where the replacement of the runner also leaves it).
C17_OneAtATimeInOrder ==
    /\ [][\A h \in HookNames :
             calls'[h] > calls[h] =>
                 /\ phase' = phase /\ phase # "idle"
                 /\ idx \in 1..Len(runnerHooks) /\ h = runnerHooks[idx]
                 /\ calls[h] = 0 /\ calls'[h] = 1
                 /\ \A g \in HookNames \ {h} :
                        /\ calls'[g] = calls[g]
                        /\ calls[g] > 0 => Pos(g) < Pos(h)]_vars
    /\ []<>(phase = "idle" \/ pc = "done")

\* an update pass is at its return after invoking its three hooks, the first of which
\* failed
C17_Witness ==
    /\ phase = "update" /\ pc = "done"
    /\ calls["task_dir"] = 1 /\ calls["artifacts"] = 1 /\ calls["template"] = 1
    /\ "task_dir" \in failed

\* the prestart pass of a non-terminal allocation has returned success
PrestartSucceeded ==
    phase = "prestart" /\ pc = "done" /\ result = NilError /\ ~allocTerminal

\* a step on which the retries would not be the ones the claim speaks of: a hook fails,
\* persisting fails, the allocation is terminal, or the runner is replaced
Trouble ==
    \/ failed' # failed /\ failed' # {}
    \/ result'.kind = "persist" /\ result.kind # "persist"
    \/ allocTerminal'
    \/ Restart

\* C18: a prestart pass invokes a hook only if its entry is not marked Done, and never a
\* hook that returned Done=true with HookData to this runner in an earlier pass; and if
\* prestart is entered again and again while, from some point on, no hook fails, persisting
\* does not fail, the allocation is not terminal and the runner is not replaced, then some
\* pass returns success.
C18_RetryResumes ==
    /\ [][\A h \in HookNames :
             (phase = "prestart" /\ calls'[h] > calls[h]) =>
                 /\ ~(localState[h].present /\ localState[h].PrestartDone)
                 /\ h \notin completed]_vars
    /\ ([]<><<prestart_Enter>>_vars /\ <>[][~Trouble]_vars) => <>PrestartSucceeded

\* a retry in this runner: validate, which returned Done=true with HookData before, was
\* skipped, and artifacts, which has no entry because the pass before ended at it, has
\* been invoked again and returned
C18_Witness ==
    /\ phase = "prestart" /\ pc = "store"
    /\ runnerHooks[idx] = "artifacts" /\ calls["artifacts"] = 1
    /\ ~observed.present
    /\ "validate" \in completed \cap reachedDone
    /\ persisted["validate"].PrestartDone
    /\ calls["validate"] = 0

\* C19: every hook a prestart pass skipped as Done is recorded with Done=true in the last
\* snapshot that was persisted.
C19_SkippedOnlyIfPersistedDone ==
    phase = "prestart" =>
        \A h \in reachedDone : persisted[h].present /\ persisted[h].PrestartDone

\* C20: when prestart stores a response without HookData, the hook's Data and Done stay
\* what they were (nil and false for a new entry), whatever Done the response carried; and
\* a prestart pass that reads an entry not marked Done goes on to invoke the hook.
C20_DoneNeedsHookData ==
    [][(phase = "prestart" /\ idx \in 1..Len(runnerHooks)) =>
          LET name == runnerHooks[idx]
          IN  /\ (pc = "store" /\ pc' = "persist" /\ resp'.HookData = 0) =>
                    /\ localState'[name].present
                    /\ localState'[name].PrestartDone = MarkedDone(name)
                    /\ localState'[name].Data = localState[name].Data
              /\ (pc = "read" /\ ~MarkedDone(name)) => pc' \in {"invoke", "idle"}]_vars

\* a hook that had an entry was invoked again and answered Done=true without HookData: its
\* entry is still not marked Done
C20_Witness ==
    /\ phase = "prestart" /\ pc = "persist"
    /\ resp.Done /\ resp.HookData = 0
    /\ observed.present
    /\ ~MarkedDone(runnerHooks[idx])
    /\ runnerHooks[idx] \notin completed

====
